---- MODULE Spec2Model ----
(***************************************************************************)
(* Model of the Confluence/Jira scraper: the bounded-depth page walk of    *)
(* ConfluenceClient.get_page_hierarchy, the issue search and collectors of *)
(* JiraClient, the text normalizers extract_text_from_html and             *)
(* _extract_adf_text, and the merge/persist steps of DocumentProcessor as  *)
(* they are driven by cli.scrape and scraper.main.                         *)
(***************************************************************************)
EXTENDS Integers, Sequences, FiniteSets, TLC

VARIABLES
    entry,          \* the entry point being executed
    pc,             \* position of the single thread of control
    root_page_id,   \* get_page_hierarchy argument
    max_depth,      \* get_page_hierarchy argument
    wiki,           \* the wiki service: page id -> ids of its child pages, in order
    pages,          \* the list get_page_hierarchy accumulates and returns
    stack,          \* activation records of _fetch_recursive, innermost last
    trail,          \* history: for each record of pages, the visit that emitted it
    failed,         \* history: the visits whose detail fetch yielded no usable page
    fetches,        \* history: the get_page_by_id calls made, in order
    jira,           \* the issue service: the project listing, each project with its issues
    search_query,   \* search_issues argument
    limit,          \* search_issues argument
    projIdx,        \* search_issues: position of the outer loop in projects[:max_projects]
    issueIdx,       \* search_issues: position of the inner loop in project_issues
    issues,         \* search_issues: the list it accumulates and returns
    ret,            \* where the running search_issues call returns to
    lit_issues,     \* get_lit_issues: its local, and what scrape receives
    connexin_issues,\* get_connexin_issues: its local, and what scrape receives
    calls,          \* history: the search_issues calls that returned, in order
    include_jira,   \* scrape option
    agile,          \* the board service scraper.main reads: status of the listing, boards
    boardIdx,       \* main: position of the loop over boards
    jira_issues,    \* main: the issues gathered from the boards
    filtered_issues,\* main: the issues that pass the keyword filter
    docIdx,         \* main: position of the loop over filtered_issues
    confluence_docs,\* the documents made of the pages
    jira_docs,      \* the documents made of the issues
    all_documents,  \* the collection that is written
    files,          \* the output directory: what each output file holds
    save_errors,    \* history: the files whose save_to_json call hit an I/O error
    saveIdx,        \* main: how many of its three save_to_json calls returned
    completed,      \* the run reported completion
    exit_code,      \* exit status of the run, "running" until it ends
    html,           \* extract_text_from_html argument: the markup, element by element
    parse,          \* whether the HTML parser accepts the markup or raises
    adf_doc,        \* _extract_adf_text argument
    extracted       \* what the running text normalizer produced

\* the arguments of the run and the two services
env == <<entry, root_page_id, max_depth, wiki, jira, include_jira, agile,
        html, parse, adf_doc>>
walkState == <<pages, stack, trail, failed, fetches>>
searchState == <<search_query, limit, projIdx, issueIdx, issues, ret>>
collectState == <<lit_issues, connexin_issues, calls>>
jiraState == <<searchState, collectState>>
mainState == <<boardIdx, jira_issues, filtered_issues, docIdx>>
outState == <<files, save_errors, saveIdx, completed, exit_code>>
docState == <<confluence_docs, jira_docs, all_documents>>
runState == <<mainState, docState, outState>>
textState == <<extracted>>
vars == <<env, pc, walkState, jiraState, runState, textState>>

----------------------------------------------------------------------------
(* Bounds of the model *)

MaxEdges == 3         \* most parent-child links a wiki has
MaxDepthBound == 2    \* largest max_depth tried
MaxFail == 1          \* most detail fetches that fail in one walk

\* scraper.py line 57: main walks to this depth
MainMaxDepth == 10

\* more activation records than any walk within the bounds needs
\* (a walk holds at most max_depth + 2 of them)
StackCap == (IF MaxDepthBound > MainMaxDepth THEN MaxDepthBound ELSE MainMaxDepth) + 3

----------------------------------------------------------------------------
(* Generic helpers *)

\* Python's None as the result of a detail fetch
None == [isNone |-> TRUE, keys |-> {}, id |-> 0]

SeqsUpTo(S, n) == UNION {[1..k -> S] : k \in 0..n}

Distinct(s) == \A i, j \in 1..Len(s) : i # j => s[i] # s[j]

IsPrefix(s, t) == Len(s) <= Len(t) /\ \A i \in 1..Len(s) : s[i] = t[i]

Last(s) == s[Len(s)]

Front(s) == SubSeq(s, 1, Len(s) - 1)

ReplaceLast(s, x) == [s EXCEPT ![Len(s)] = x]

----------------------------------------------------------------------------
(* Python values *)

\* a str is the sequence of its characters; an argument that may be None
\* carries a flag
Q(s) == [none |-> FALSE, s |-> s]

QNone == [none |-> TRUE, s |-> <<>>]

\* truth value of an optional str: None and '' are false
TruthyStr(q) == ~q.none /\ q.s # <<>>

Lowers == <<"a", "b", "c", "d", "e", "f", "g", "h", "i", "j", "k", "l", "m",
            "n", "o", "p", "q", "r", "s", "t", "u", "v", "w", "x", "y", "z">>

Uppers == <<"A", "B", "C", "D", "E", "F", "G", "H", "I", "J", "K", "L", "M",
            "N", "O", "P", "Q", "R", "S", "T", "U", "V", "W", "X", "Y", "Z">>

\* str.lower and str.upper on one character
LowerChar(c) ==
    IF \E k \in 1..26 : Uppers[k] = c
    THEN Lowers[CHOOSE k \in 1..26 : Uppers[k] = c] ELSE c

UpperChar(c) ==
    IF \E k \in 1..26 : Lowers[k] = c
    THEN Uppers[CHOOSE k \in 1..26 : Lowers[k] = c] ELSE c

Lower(s) == [k \in 1..Len(s) |-> LowerChar(s[k])]

Upper(s) == [k \in 1..Len(s) |-> UpperChar(s[k])]


\* the `in` operator on strs
IsSubstring(s, t) ==
    \E k \in 0..(Len(t) - Len(s)) : SubSeq(t, k + 1, k + Len(s)) = s

RECURSIVE Join(_, _)
\* sep.join(parts)
Join(sep, parts) ==
    IF parts = <<>> THEN <<>>
    ELSE IF Len(parts) = 1 THEN parts[1]
    ELSE parts[1] \o sep \o Join(sep, Tail(parts))

\* str(None)
StrOfNone == <<"N", "o", "n", "e">>

----------------------------------------------------------------------------
(* The wiki service *)

SmallPages == {100, 101, 102}

Pages == SmallPages \cup {103}

KidLists == {s \in SeqsUpTo(SmallPages, MaxEdges) : Distinct(s)}

Edges(f) == Len(f[100]) + Len(f[101]) + Len(f[102])

\* the hierarchy of the end-to-end example: 100 -> [101, 102], 102 -> [103]
ExampleWiki == [p \in Pages |-> IF p = 100 THEN <<101, 102>>
                                ELSE IF p = 102 THEN <<103>> ELSE <<>>]

\* every hierarchy of up to MaxEdges links over the small pages (trees, shared
\* children and cycles) and the example
Wikis == {[p \in Pages |-> IF p \in SmallPages THEN f[p] ELSE <<>>] :
              f \in {g \in [SmallPages -> KidLists] : Edges(g) <= MaxEdges}}
         \cup {ExampleWiki}

\* outcome of one GET of a page's detail
FetchOutcomes == {"ok", "http_error", "empty", "no_id"}

\* get_page_by_id: the JSON body of the response, None when the request raises
GetPageById(page_id, outcome) ==
    CASE outcome = "http_error" -> None
      [] outcome = "empty"      -> [isNone |-> FALSE, keys |-> {}, id |-> 0]
      [] outcome = "no_id"      -> [isNone |-> FALSE, keys |-> {"title"}, id |-> 0]
      [] OTHER                  -> [isNone |-> FALSE, keys |-> {"id", "title"},
                                    id |-> page_id]

\* Python truth value of what get_page_by_id returned
Truthy(page) == ~page.isNone /\ page.keys # {}

\* get_page_children: the ids of data['results'], in the order returned
GetPageChildren(page_id) == wiki[page_id]

----------------------------------------------------------------------------
(* get_page_hierarchy *)

Frame(page_id, depth, path) ==
    [page_id |-> page_id, depth |-> depth, at |-> "entry",
     children |-> <<>>, i |-> 1, path |-> path]

TooDeepOffByOne(depth) == depth > max_depth + 1

TooDeepNever(depth) == FALSE

TooDeepAtBound(depth) == depth >= max_depth

TooDeep(depth) == depth > max_depth

PageData(page, depth) == [id |-> page.id, depth |-> depth]

Top == Last(stack)

Walking == pc = "walk" /\ stack # <<>>

\* line 99-100: beyond max_depth the call returns at once
DepthReturn ==
    /\ Walking /\ Top.at = "entry"
    /\ TooDeep(Top.depth)
    /\ stack' = Front(stack)
    /\ UNCHANGED <<env, textState, runState, pc, pages, trail, failed, fetches, jiraState>>

\* line 103-105: no page came back, the call returns
FetchNothing ==
    /\ Walking /\ Top.at = "entry"
    /\ ~TooDeep(Top.depth)
    /\ Cardinality(failed) < MaxFail
    /\ \E outcome \in FetchOutcomes :
          /\ ~Truthy(GetPageById(Top.page_id, outcome))
          /\ stack' = Front(stack)
          /\ failed' = failed \cup {Top.path}
    /\ fetches' = Append(fetches, [page_id |-> Top.page_id, depth |-> Top.depth])
    /\ UNCHANGED <<env, textState, runState, pc, pages, trail, jiraState>>

\* line 115: a page without an 'id' raises KeyError inside the try block
FetchMalformed ==
    /\ Walking /\ Top.at = "entry"
    /\ ~TooDeep(Top.depth)
    /\ Cardinality(failed) < MaxFail
    /\ \E outcome \in FetchOutcomes :
          LET page == GetPageById(Top.page_id, outcome) IN
          /\ Truthy(page) /\ "id" \notin page.keys
          /\ stack' = ReplaceLast(stack, [Top EXCEPT !.at = "except"])
          /\ failed' = failed \cup {Top.path}
    /\ fetches' = Append(fetches, [page_id |-> Top.page_id, depth |-> Top.depth])
    /\ UNCHANGED <<env, textState, runState, pc, pages, trail, jiraState>>

\* no handler: the exception unwinds every call and reaches the caller
ExceptPropagates ==
    /\ Walking /\ Top.at = "except"
    /\ stack' = <<>>
    /\ pc' = "raised"
    /\ UNCHANGED <<env, textState, runState, pages, trail, failed, fetches, jiraState>>

\* line 133-134: the handler logs and the call returns normally
ExceptHandler ==
    /\ Walking /\ Top.at = "except"
    /\ stack' = Front(stack)
    /\ UNCHANGED <<env, textState, runState, pc, pages, trail, failed, fetches, jiraState>>

\* line 103-129: the page is appended, then its children are listed
FetchOk ==
    /\ Walking /\ Top.at = "entry"
    /\ ~TooDeep(Top.depth)
    /\ LET page == GetPageById(Top.page_id, "ok") IN
          /\ Truthy(page) /\ "id" \in page.keys
          /\ pages' = Append(pages, PageData(page, Top.depth))
          /\ trail' = Append(trail, Top.path)
          /\ stack' = ReplaceLast(stack,
                 [Top EXCEPT !.at = "loop",
                             !.children = GetPageChildren(Top.page_id),
                             !.i = 1])
    /\ fetches' = Append(fetches, [page_id |-> Top.page_id, depth |-> Top.depth])
    /\ UNCHANGED <<env, textState, runState, pc, failed, jiraState>>

\* the loop run back to front
DescendReversed ==
    /\ Walking /\ Top.at = "loop"
    /\ Top.i <= Len(Top.children)
    /\ Len(stack) < StackCap
    /\ LET k == Len(Top.children) + 1 - Top.i IN
       stack' = Append(ReplaceLast(stack, [Top EXCEPT !.i = Top.i + 1]),
                       Frame(Top.children[k], Top.depth + 1,
                             Append(Top.path, k)))
    /\ UNCHANGED <<env, textState, runState, pc, pages, trail, failed, fetches, jiraState>>

\* line 130-131: the loop calls _fetch_recursive on the next child
Descend ==
    /\ Walking /\ Top.at = "loop"
    /\ Top.i <= Len(Top.children)
    /\ Len(stack) < StackCap
    /\ stack' = Append(ReplaceLast(stack, [Top EXCEPT !.i = Top.i + 1]),
                       Frame(Top.children[Top.i], Top.depth + 1,
                             Append(Top.path, Top.i)))
    /\ UNCHANGED <<env, textState, runState, pc, pages, trail, failed, fetches, jiraState>>

\* line 130: the loop is exhausted, the call returns
LoopEnd ==
    /\ Walking /\ Top.at = "loop"
    /\ Top.i > Len(Top.children)
    /\ stack' = Front(stack)
    /\ UNCHANGED <<env, textState, runState, pc, pages, trail, failed, fetches, jiraState>>

\* line 136-137: the outermost call is over, pages is returned
HierarchyReturn ==
    /\ pc = "walk" /\ stack = <<>>
    /\ pc' = IF entry = "get_page_hierarchy" THEN "done" ELSE "format_confluence"
    /\ UNCHANGED <<env, textState, runState, walkState, jiraState>>

WalkStep ==
    \/ DepthReturn
    \/ FetchNothing
    \/ FetchMalformed
    \/ ExceptHandler
    \/ FetchOk
    \/ Descend
    \/ LoopEnd
    \/ HierarchyReturn

\* the issue side at rest
JiraIdle ==
    /\ search_query = QNone /\ limit = 0 /\ projIdx = 0 /\ issueIdx = 0
    /\ issues = <<>> /\ ret = "none"
    /\ lit_issues = <<>> /\ connexin_issues = <<>> /\ calls = <<>>

\* the value of a key of a JSON object: the key missing, null, a str, an int
\* or a list
JAbsent == [kind |-> "absent", s |-> <<>>, n |-> 0, items |-> <<>>]
JNull == [kind |-> "null", s |-> <<>>, n |-> 0, items |-> <<>>]
JStr(s) == [kind |-> "str", s |-> s, n |-> 0, items |-> <<>>]
JInt(n) == [kind |-> "int", s |-> <<>>, n |-> n, items |-> <<>>]
JList(items) == [kind |-> "list", s |-> <<>>, n |-> 0, items |-> items]

\* a node of an ADF tree with its 'type', 'text' and 'content' keys
Block(type, text, content) ==
    [isDict |-> TRUE, type |-> type, text |-> text, content |-> content]

\* an item that is no dict (a str, a number)
NotADict == [isDict |-> FALSE, type |-> "", text |-> JAbsent, content |-> JAbsent]

AdfDoc(content) == [content |-> content]

\* the outcome of a normalizer call
TextRaised == [raised |-> TRUE, failed |-> TRUE, text |-> <<>>, raw |-> <<>>]
TextReturned(text) == [raised |-> FALSE, failed |-> FALSE, text |-> text, raw |-> <<>>]
TextFallback(raw) == [raised |-> FALSE, failed |-> TRUE, text |-> <<>>, raw |-> raw]
NoText == TextReturned(<<>>)

\* no text normalizer call
TextIdle ==
    /\ html = <<>> /\ parse = "ok" /\ adf_doc = AdfDoc(JAbsent)
    /\ extracted = NoText

\* the board service unused
AgileIdle ==
    /\ agile = [status |-> 200, boards |-> <<>>]
    /\ boardIdx = 0 /\ jira_issues = <<>> /\ filtered_issues = <<>> /\ docIdx = 0

OutputFiles == {"connexin_documents_merged.json",
                "connexin_documents_confluence.json",
                "connexin_documents_jira.json"}

NoFile == [state |-> "absent", documents |-> <<>>]

\* nothing formatted or written yet
RunIdle ==
    /\ confluence_docs = <<>> /\ jira_docs = <<>> /\ all_documents = <<>>
    /\ files = [f \in OutputFiles |-> NoFile]
    /\ save_errors = {} /\ saveIdx = 0
    /\ completed = FALSE /\ exit_code = "running"

InitWalk ==
    /\ TextIdle
    /\ entry = "get_page_hierarchy"
    /\ pc = "walk"
    /\ jira = <<>>
    /\ include_jira = FALSE
    /\ JiraIdle /\ AgileIdle /\ RunIdle
    /\ root_page_id \in SmallPages
    /\ max_depth \in 0..MaxDepthBound
    /\ wiki \in Wikis
    /\ pages = <<>>
    /\ stack = <<Frame(root_page_id, 0, <<>>)>>
    /\ trail = <<>>
    /\ failed = {}
    /\ fetches = <<>>

NextWalk == WalkStep

SpecWalk == InitWalk /\ [][NextWalk]_vars

\* the interpreter always takes the next step of a running call
SpecWalkFair == SpecWalk /\ WF_vars(NextWalk)

----------------------------------------------------------------------------
(* The issue service *)

MaxPad == 10          \* most empty projects listed ahead of the projects with issues

\* search_issues and the collectors (jira_client.py)
MaxProjectsFiltered == 20
MaxProjectsUnfiltered == 10
TargetedLimit == 30
FallbackLimit == 10

\* fields.description: the key may be missing, null, a str or an ADF document
TextNode(t) == Block("text", JStr(t), JAbsent)
Paragraph(content) == Block("paragraph", JAbsent, JList(content))

DescAbsent == [kind |-> "absent", s |-> <<>>, doc |-> AdfDoc(JAbsent)]
DescNull == [kind |-> "null", s |-> <<>>, doc |-> AdfDoc(JAbsent)]
DescStr(s) == [kind |-> "str", s |-> s, doc |-> AdfDoc(JAbsent)]
DescAdf(content) == [kind |-> "adf", s |-> <<>>, doc |-> AdfDoc(JList(content))]

\* fields.assignee when it is an object with a displayName
JDict(displayName) == [kind |-> "dict", s |-> displayName, n |-> 0, items |-> <<>>]

\* an entry of changelog.histories: when it was made, whether it has items
History(created, items) == [created |-> created, items |-> items]

\* an issue as the service returns it; fields.assignee and the changelog are
\* missing unless set
RawIssue(key, summary, description) ==
    [key |-> key, id |-> 10000 + key, summary |-> summary,
     description |-> description, assignee |-> JAbsent, histories |-> <<>>]

WithId(issue, id) == [issue EXCEPT !.id = id]
WithAssignee(issue, assignee) == [issue EXCEPT !.assignee = assignee]
WithHistories(issue, histories) == [issue EXCEPT !.histories = histories]

sLit == <<"L", "i", "t">>
sBoth == <<"C", "o", "n", "n", "e", "x", "i", "n", " ", "L", "I", "T">>
sFix == <<"F", "i", "x">>
sConnexin == <<"C", "o", "n", "n", "e", "x", "i", "n">>

IssuePool ==
    { RawIssue(1, sLit, DescAbsent),
      RawIssue(2, sBoth, DescStr(<<"x">>)),
      RawIssue(3, sFix, DescNull),
      RawIssue(4, sFix, DescAdf(<<Paragraph(<<TextNode(sConnexin)>>),
                                  Paragraph(<<TextNode(<<"x">>)>>)>>)) }

Project(status, project_issues) == [status |-> status, issues |-> project_issues]

\* n issues with the same summary and keys of their own
Bulk(n, summary) == [k \in 1..n |-> RawIssue(100 + k, summary, DescAbsent)]

FirstProjects ==
    {Project(404, <<>>)}
    \cup {Project(200, l) : l \in {m \in SeqsUpTo(IssuePool, 2) : Distinct(m)}}
    \cup {Project(200, Bulk(TargetedLimit + 1, sLit)),
          Project(200, Bulk(FallbackLimit + 1, sFix))}

SecondProjects == {Project(200, l) : l \in SeqsUpTo(IssuePool, 1)}

Pad(n) == [k \in 1..n |-> Project(200, <<>>)]

\* project listings: empty projects, then two projects that may hold issues
Jiras == {Pad(n) \o <<p1, p2>> :
             n \in 0..MaxPad, p1 \in FirstProjects, p2 \in SecondProjects}

----------------------------------------------------------------------------
(* JiraClient._extract_adf_text *)

\* bool(value)
JTruthy(value) ==
    CASE value.kind = "list" -> value.items # <<>>
      [] value.kind = "str"  -> value.s # <<>>
      [] value.kind = "int"  -> value.n # 0
      [] OTHER               -> FALSE

\* a for loop over the value runs; over None or an int it raises TypeError
Iterable(value) == value.kind \in {"list", "str"}

\* what the for loop yields: the items of a list, the characters of a str
IterItems(value) ==
    IF value.kind = "list" THEN value.items
    ELSE [k \in 1..Len(value.s) |-> NotADict]

\* block.get('text', '')
GetText(block) == IF block.text.kind = "absent" THEN JStr(<<>>) ELSE block.text

\* line 155-156: any node with a 'text' key would contribute
OwnTextAnyKind(block) ==
    IF block.text.kind # "absent" THEN <<GetText(block)>> ELSE <<>>

\* line 155-156: what the block itself appends to text_parts
OwnText(block) == IF block.type = "text" THEN <<GetText(block)>> ELSE <<>>

Raised == [raised |-> TRUE, parts |-> <<>>]
Appended(parts) == [raised |-> FALSE, parts |-> parts]

RECURSIVE ExtractFromBlock(_), ExtractFromItems(_)
\* extract_from_block: what it appends to text_parts, or that it raised
ExtractFromBlock(block) ==
    IF ~block.isDict THEN Appended(<<>>)
    ELSE IF block.content.kind = "absent" THEN Appended(OwnText(block))
    ELSE IF ~Iterable(block.content) THEN Raised
    ELSE LET rest == ExtractFromItems(IterItems(block.content)) IN
         IF rest.raised THEN Raised
         ELSE Appended(OwnText(block) \o rest.parts)

\* the for loops of lines 157-159 and 161-163
ExtractFromItems(items) ==
    IF items = <<>> THEN Appended(<<>>)
    ELSE LET first == ExtractFromBlock(Head(items)) IN
         IF first.raised THEN Raised
         ELSE LET rest == ExtractFromItems(Tail(items)) IN
              IF rest.raised THEN Raised
              ELSE Appended(first.parts \o rest.parts)

\* ' '.join(text_parts): TypeError when a part is no str
JoinParts(parts) ==
    IF \E k \in 1..Len(parts) : parts[k].kind # "str" THEN TextRaised
    ELSE TextReturned(Join(<<" ">>, [k \in 1..Len(parts) |-> parts[k].s]))

\* _extract_adf_text: the string it returns, or that an exception left it
ExtractAdfText(doc) ==
    LET content == IF doc.content.kind = "absent" THEN JList(<<>>) ELSE doc.content IN
    IF ~JTruthy(content) THEN JoinParts(<<>>)
    ELSE IF ~Iterable(content) THEN TextRaised
    ELSE LET r == ExtractFromItems(IterItems(content)) IN
         IF r.raised THEN TextRaised ELSE JoinParts(r.parts)

----------------------------------------------------------------------------
(* JiraClient.search_issues *)

\* line 71-75: the description text the filter looks at
DescText(description) ==
    CASE description.kind = "absent" -> Lower(<<>>)
      [] description.kind = "null"   -> Lower(StrOfNone)
      [] description.kind = "str"    -> Lower(description.s)
      [] OTHER                       -> Lower(ExtractAdfText(description.doc).text)

\* line 70-78: the issue passes the filter
Matches(query, issue) ==
    \/ IsSubstring(Lower(query.s), Lower(issue.summary))
    \/ IsSubstring(Lower(query.s), DescText(issue.description))

Min(a, b) == IF a <= b THEN a ELSE b

\* line 143: the entries of the changelog that are looked at
HistoryLimit == 5

ContentPart(label, s, created) == [label |-> label, s |-> s, created |-> created]

\* lines 142-145: an 'Update: <created>' part for each of the first
\* HistoryLimit entries that has items
UpdateParts(histories) ==
    LET looked == SubSeq(histories, 1, Min(Len(histories), HistoryLimit))
        shown == SelectSeq(looked, LAMBDA h : h.items) IN
    [k \in 1..Len(shown) |-> ContentPart("Update", <<>>, shown[k].created)]

\* _extract_issue_content: the parts that ' '.join puts together
IssueContent(issue) ==
    (IF issue.summary # <<>>
     THEN <<ContentPart("Summary", issue.summary, 0)>> ELSE <<>>)
    \o (CASE issue.description.kind = "str" /\ issue.description.s # <<>> ->
               <<ContentPart("Description", issue.description.s, 0)>>
           [] issue.description.kind = "adf" ->
               <<ContentPart("", ExtractAdfText(issue.description.doc).text, 0)>>
           [] OTHER -> <<>>)
    \o UpdateParts(issue.histories)

sUnassigned == <<"U", "n", "a", "s", "s", "i", "g", "n", "e", "d">>

\* line 90: .get('assignee', {}).get('displayName', 'Unassigned')
DisplayName(issue) ==
    IF issue.assignee.kind = "dict" THEN issue.assignee.s ELSE sUnassigned

\* line 80-94
IssueData(issue) ==
    [key |-> issue.key, id |-> issue.id, title |-> issue.summary,
     assignee |-> DisplayName(issue), content |-> IssueContent(issue)]

\* line 73-74: the filter extracts the text of an ADF description and that raises
RaisesInFilter(query, issue) ==
    /\ TruthyStr(query)
    /\ issue.description.kind = "adf"
    /\ ExtractAdfText(issue.description.doc).raised

\* line 90: None has no get; line 92, 137: the text of the description raises
RaisesInData(issue) ==
    \/ issue.assignee.kind = "null"
    \/ issue.description.kind = "adf" /\ ExtractAdfText(issue.description.doc).raised

\* line 44
MaxProjects(query) ==
    IF TruthyStr(query) THEN MaxProjectsFiltered ELSE MaxProjectsUnfiltered

\* projects[:max_projects]
Searched == SubSeq(jira, 1, Min(Len(jira), MaxProjects(search_query)))

\* the call search_issues(query, lim), returning to label r
SearchEnter(query, lim, r) ==
    /\ search_query' = query
    /\ limit' = lim
    /\ ret' = r
    /\ issues' = <<>>
    /\ projIdx' = 0
    /\ issueIdx' = 0
    /\ pc' = "search_list"

\* line 33-38, 103-105: listing the projects raises, [] is returned
ListProjectsFails ==
    /\ pc = "search_list"
    /\ issues' = <<>>
    /\ calls' = Append(calls, [query |-> search_query, limit |-> limit,
                               n |-> 0, listed |-> FALSE])
    /\ pc' = ret
    /\ UNCHANGED <<env, textState, runState, walkState, search_query, limit, projIdx, issueIdx, ret,
                   lit_issues, connexin_issues>>

\* line 33-47: the listing is read and the outer loop starts
ListProjects ==
    /\ pc = "search_list"
    /\ projIdx' = 1
    /\ pc' = "search_project"
    /\ UNCHANGED <<env, textState, runState, walkState, search_query, limit, issueIdx, issues, ret,
                   collectState>>

\* line 59-60: the project's issues endpoint does not answer 200
ProjectSkipped ==
    /\ pc = "search_project"
    /\ projIdx <= Len(Searched)
    /\ Searched[projIdx].status # 200
    /\ projIdx' = projIdx + 1
    /\ UNCHANGED <<env, textState, runState, pc, walkState, search_query, limit, issueIdx, issues, ret,
                   collectState>>

\* line 62-64: the project's issues are read and the inner loop starts
ProjectIssues ==
    /\ pc = "search_project"
    /\ projIdx <= Len(Searched)
    /\ Searched[projIdx].status = 200
    /\ issueIdx' = 1
    /\ pc' = "search_issue"
    /\ UNCHANGED <<env, textState, runState, walkState, search_query, limit, projIdx, issues, ret,
                   collectState>>

CurrentIssues == Searched[projIdx].issues

\* line 64: the inner loop is exhausted
IssuesExhausted ==
    /\ pc = "search_issue"
    /\ issueIdx > Len(CurrentIssues)
    /\ projIdx' = projIdx + 1
    /\ pc' = "search_project"
    /\ UNCHANGED <<env, textState, runState, walkState, search_query, limit, issueIdx, issues, ret,
                   collectState>>

LimitReached == Len(issues) >= limit

\* line 65-66: the limit is reached, the inner loop breaks
LimitBreak ==
    /\ pc = "search_issue"
    /\ issueIdx <= Len(CurrentIssues)
    /\ LimitReached
    /\ projIdx' = projIdx + 1
    /\ pc' = "search_project"
    /\ UNCHANGED <<env, textState, runState, walkState, search_query, limit, issueIdx, issues, ret,
                   collectState>>

\* line 69: the filter applies and rejects the issue
Rejected(issue) == TruthyStr(search_query) /\ ~Matches(search_query, issue)

\* line 69-94: handling the issue raises
Raises(issue) ==
    \/ RaisesInFilter(search_query, issue)
    \/ ~Rejected(issue) /\ RaisesInData(issue)

\* line 98-100: the exception is caught outside the loop over the issues, the
\* rest of the project is left and the next project is taken
IssueRaises ==
    /\ pc = "search_issue"
    /\ issueIdx <= Len(CurrentIssues)
    /\ ~LimitReached
    /\ Raises(CurrentIssues[issueIdx])
    /\ projIdx' = projIdx + 1
    /\ pc' = "search_project"
    /\ UNCHANGED <<env, textState, runState, walkState, search_query, limit, issueIdx, issues, ret,
                   collectState>>

\* line 69-78: the issue does not pass the filter
IssueFiltered ==
    /\ pc = "search_issue"
    /\ issueIdx <= Len(CurrentIssues)
    /\ ~LimitReached
    /\ ~Raises(CurrentIssues[issueIdx])
    /\ Rejected(CurrentIssues[issueIdx])
    /\ issueIdx' = issueIdx + 1
    /\ UNCHANGED <<env, textState, runState, pc, walkState, search_query, limit, projIdx, issues, ret,
                   collectState>>

\* line 80-96: the issue is appended
IssueAppended ==
    /\ pc = "search_issue"
    /\ issueIdx <= Len(CurrentIssues)
    /\ ~LimitReached
    /\ ~Raises(CurrentIssues[issueIdx])
    /\ ~Rejected(CurrentIssues[issueIdx])
    /\ issues' = Append(issues, IssueData(CurrentIssues[issueIdx]))
    /\ issueIdx' = issueIdx + 1
    /\ UNCHANGED <<env, textState, runState, pc, walkState, search_query, limit, projIdx, ret,
                   collectState>>

\* line 47, 102: the outer loop is exhausted, issues is returned
SearchReturn ==
    /\ pc = "search_project"
    /\ projIdx > Len(Searched)
    /\ calls' = Append(calls, [query |-> search_query, limit |-> limit,
                               n |-> Len(issues), listed |-> TRUE])
    /\ pc' = ret
    /\ UNCHANGED <<env, textState, runState, walkState, searchState, lit_issues, connexin_issues>>

SearchStep ==
    \/ ListProjectsFails
    \/ ListProjects
    \/ ProjectSkipped
    \/ ProjectIssues
    \/ IssuesExhausted
    \/ LimitBreak
    \/ IssueFiltered
    \/ IssueAppended
    \/ SearchReturn

----------------------------------------------------------------------------
(* JiraClient.get_lit_issues, JiraClient.get_connexin_issues *)

qLit == Q(<<"l", "i", "t">>)
qConnexin == Q(<<"c", "o", "n", "n", "e", "x", "i", "n">>)

\* line 170: the targeted search
LitSearch ==
    /\ pc = "get_lit_issues"
    /\ SearchEnter(qLit, TargetedLimit, "lit_searched")
    /\ UNCHANGED <<env, textState, runState, walkState, collectState>>

NeedsFallbackInverted(found) == found # <<>>

NeedsFallback(found) == found = <<>>

\* line 170-174: nothing found, the unfiltered search is called
LitFallback ==
    /\ pc = "lit_searched"
    /\ NeedsFallback(issues)
    /\ SearchEnter(QNone, FallbackLimit, "lit_fallen_back")
    /\ lit_issues' = issues
    /\ UNCHANGED <<env, textState, runState, walkState, connexin_issues, calls>>

\* line 175: the collector returns what the last search returned
LitReturn ==
    /\ \/ pc = "lit_searched" /\ ~NeedsFallback(issues)
       \/ pc = "lit_fallen_back"
    /\ lit_issues' = issues
    /\ pc' = IF entry = "get_lit_issues" THEN "done" ELSE "get_connexin_issues"
    /\ UNCHANGED <<env, textState, runState, walkState, searchState, connexin_issues, calls>>

\* line 180: the targeted search
ConnexinSearch ==
    /\ pc = "get_connexin_issues"
    /\ SearchEnter(qConnexin, TargetedLimit, "connexin_searched")
    /\ UNCHANGED <<env, textState, runState, walkState, collectState>>

\* line 180-184: nothing found, the unfiltered search is called
ConnexinFallback ==
    /\ pc = "connexin_searched"
    /\ NeedsFallback(issues)
    /\ SearchEnter(QNone, FallbackLimit, "connexin_fallen_back")
    /\ connexin_issues' = issues
    /\ UNCHANGED <<env, textState, runState, walkState, lit_issues, calls>>

\* line 185: the collector returns what the last search returned
ConnexinReturn ==
    /\ \/ pc = "connexin_searched" /\ ~NeedsFallback(issues)
       \/ pc = "connexin_fallen_back"
    /\ connexin_issues' = issues
    /\ pc' = IF entry = "get_connexin_issues" THEN "done" ELSE "format_jira"
    /\ UNCHANGED <<env, textState, runState, walkState, searchState, lit_issues, calls>>

CollectStep ==
    \/ LitSearch
    \/ LitFallback
    \/ LitReturn
    \/ ConnexinSearch
    \/ ConnexinFallback
    \/ ConnexinReturn

\* a direct call of search_issues returns to its caller
DirectReturn ==
    /\ pc = "search_returned"
    /\ pc' = "done"
    /\ UNCHANGED <<env, textState, runState, walkState, jiraState>>

Selectors == {qLit, Q(<<"L", "I", "T">>), Q(<<"n", "o", "n", "e">>), Q(<<"x">>),
              Q(<<>>), QNone}

Limits == {1, 2, 100}

WalkIdle ==
    /\ root_page_id = 100 /\ max_depth = 0 /\ wiki = ExampleWiki
    /\ pages = <<>> /\ stack = <<>> /\ trail = <<>> /\ failed = {}
    /\ fetches = <<>>

\* one call of search_issues, get_lit_issues or get_connexin_issues
InitCollect ==
    /\ TextIdle
    /\ WalkIdle /\ AgileIdle /\ RunIdle
    /\ include_jira = TRUE
    /\ jira \in Jiras
    /\ lit_issues = <<>> /\ connexin_issues = <<>> /\ calls = <<>>
    /\ issues = <<>> /\ projIdx = 0 /\ issueIdx = 0
    /\ \/ /\ entry = "search_issues"
          /\ search_query \in Selectors /\ limit \in Limits
          /\ ret = "search_returned"
          /\ pc = "search_list"
       \/ /\ entry \in {"get_lit_issues", "get_connexin_issues"}
          /\ search_query = QNone /\ limit = 0 /\ ret = "none"
          /\ pc = entry

NextCollect == SearchStep \/ CollectStep \/ DirectReturn

SpecCollect == InitCollect /\ [][NextCollect]_vars

MaxHistories == 6     \* longest changelog of an issue

\* changelogs in ascending order of time, each entry with or without items
HistoryLogs ==
    UNION { { [k \in 1..n |-> History(k, f[k])] : f \in [1..n -> BOOLEAN] } :
            n \in 0..MaxHistories }

sAda == <<"A", "d", "a">>

\* the second issue of the first project: with a changelog, with an assignee,
\* with a null assignee, with a description whose text cannot be extracted,
\* or one the selector "lit" does not match
MiddleIssues ==
    { WithHistories(RawIssue(2, sLit, DescAbsent), h) : h \in HistoryLogs }
    \cup { WithAssignee(RawIssue(2, sLit, DescAbsent), a) : a \in {JNull, JDict(sAda)} }
    \cup { RawIssue(2, sLit, DescAdf(<<Block("paragraph", JAbsent, JNull)>>)),
           RawIssue(2, sFix, DescAbsent) }

\* project listings: a project of three issues, then a project that does not
\* answer or holds one issue
SearchJiras ==
    { <<Project(200, <<RawIssue(1, sLit, DescAbsent), m,
                       RawIssue(3, sLit, DescStr(<<"x">>))>>), p2>> :
        m \in MiddleIssues,
        p2 \in {Project(404, <<>>), Project(200, <<RawIssue(4, sLit, DescAbsent)>>)} }

\* one call of search_issues on issues with changelogs and null fields
InitSearch ==
    /\ TextIdle /\ WalkIdle /\ AgileIdle /\ RunIdle
    /\ include_jira = TRUE
    /\ jira \in SearchJiras
    /\ lit_issues = <<>> /\ connexin_issues = <<>> /\ calls = <<>>
    /\ issues = <<>> /\ projIdx = 0 /\ issueIdx = 0
    /\ entry = "search_issues"
    /\ search_query \in {qLit, QNone} /\ limit \in {2, 100}
    /\ ret = "search_returned"
    /\ pc = "search_list"

NextSearch == SearchStep \/ IssueRaises \/ DirectReturn

SpecSearch == InitSearch /\ [][NextSearch]_vars

----------------------------------------------------------------------------
(* DocumentProcessor *)

\* format_confluence_document: the fields the collection is keyed on
FormatConfluenceDocument(page) ==
    [id |-> page.id, source_type |-> "confluence", document_type |-> "wiki_page",
     key |-> 0, depth |-> page.depth]

\* format_jira_document: the document id is the issue's id, the key is metadata
FormatJiraDocument(issue) ==
    [id |-> issue.id, source_type |-> "jira", document_type |-> "issue",
     key |-> issue.key, depth |-> 0]

MergeReversed(a, b) == b \o a

\* merge_documents
MergeDocuments(a, b) == a \o b

\* the file and the list of the save_to_json call that is due
SavePath ==
    IF entry = "scrape" \/ saveIdx = 0 THEN "connexin_documents_merged.json"
    ELSE IF saveIdx = 1 THEN "connexin_documents_confluence.json"
    ELSE "connexin_documents_jira.json"

SaveDocuments ==
    IF entry = "scrape" \/ saveIdx = 0 THEN all_documents
    ELSE IF saveIdx = 1 THEN confluence_docs
    ELSE jira_docs

AfterSave == IF entry = "scrape" \/ saveIdx = 2 THEN "summary" ELSE "save"

\* save_to_json, line 72-75: the file is written
SaveWritten ==
    /\ pc = "save"
    /\ files' = [files EXCEPT ![SavePath] =
                    [state |-> "written", documents |-> SaveDocuments]]
    /\ saveIdx' = saveIdx + 1
    /\ pc' = AfterSave
    /\ UNCHANGED <<env, textState, walkState, jiraState, mainState, docState, save_errors,
                   completed, exit_code>>

\* save_to_json, line 76-77: open or dump raises; the error is logged and the
\* call returns None. The file is untouched or left truncated.
SaveFails ==
    /\ pc = "save"
    /\ \E truncated \in BOOLEAN :
          files' = IF truncated
                   THEN [files EXCEPT ![SavePath] =
                            [state |-> "truncated", documents |-> <<>>]]
                   ELSE files
    /\ save_errors' = save_errors \cup {SavePath}
    /\ saveIdx' = saveIdx + 1
    /\ pc' = AfterSave
    /\ UNCHANGED <<env, textState, walkState, jiraState, mainState, docState,
                   completed, exit_code>>

----------------------------------------------------------------------------
(* cli.scrape *)

\* line 55: [processor.format_confluence_document(page) for page in ...]
FormatConfluencePages(ps) ==
    [k \in 1..Len(ps) |-> FormatConfluenceDocument(ps[k])]

\* line 71: [processor.format_jira_document(issue) for issue in ...]
FormatJiraIssues(is) ==
    [k \in 1..Len(is) |-> FormatJiraDocument(is[k])]

\* line 55-60: the pages are formatted and appended to all_documents
FormatConfluence ==
    /\ pc = "format_confluence" /\ entry = "scrape"
    /\ confluence_docs' = FormatConfluencePages(pages)
    /\ all_documents' = all_documents \o FormatConfluencePages(pages)
    /\ pc' = IF include_jira THEN "get_lit_issues" ELSE "save"
    /\ UNCHANGED <<env, textState, walkState, jiraState, mainState, jira_docs, outState>>

\* line 71-73: the issues of both collectors are formatted and appended
FormatJira ==
    /\ pc = "format_jira"
    /\ jira_docs' = FormatJiraIssues(lit_issues \o connexin_issues)
    /\ all_documents' =
          all_documents \o FormatJiraIssues(lit_issues \o connexin_issues)
    /\ pc' = "save"
    /\ UNCHANGED <<env, textState, walkState, jiraState, mainState, confluence_docs, outState>>

\* line 80-83: the summary is printed and the command ends with status 0
ScrapeComplete ==
    /\ pc = "summary" /\ entry = "scrape"
    /\ completed' = TRUE
    /\ exit_code' = "0"
    /\ pc' = "done"
    /\ UNCHANGED <<env, textState, walkState, jiraState, mainState, docState, files,
                   save_errors, saveIdx>>

ScrapeStep == FormatConfluence \/ FormatJira \/ SaveWritten \/ SaveFails
              \/ ScrapeComplete

\* the listings scrape is run against: the projects with issues come first or
\* after MaxPad empty projects
\* an issue whose key is no page id and whose id is the id of page 100
sameIdIssue == WithId(RawIssue(5, sLit, DescAbsent), 100)

ScrapeJiras ==
    {j \in Jiras : Len(j) \in {2, MaxPad + 2}}
    \cup {<<Project(200, <<sameIdIssue>>), Project(200, <<>>)>>}

\* the command at its call of get_page_hierarchy (line 54)
InitScrape ==
    /\ TextIdle
    /\ entry = "scrape"
    /\ pc = "walk"
    /\ root_page_id = 100
    /\ max_depth \in 0..1
    /\ wiki = ExampleWiki
    /\ include_jira \in BOOLEAN
    /\ jira \in IF include_jira THEN ScrapeJiras ELSE {<<>>}
    /\ pages = <<>>
    /\ stack = <<Frame(root_page_id, 0, <<>>)>>
    /\ trail = <<>>
    /\ failed = {}
    /\ fetches = <<>>
    /\ JiraIdle /\ AgileIdle /\ RunIdle

NextScrape == WalkStep \/ SearchStep \/ CollectStep \/ ScrapeStep

SpecScrape == InitScrape /\ [][NextScrape]_vars

----------------------------------------------------------------------------
(* scraper.main *)

\* line 116
Keywords ==
    { <<"L", "I", "T">>,
      <<"C", "o", "n", "n", "e", "x", "i", "n">>,
      <<"S", "a", "l", "e", "s", "f", "o", "r", "c", "e">>,
      <<"M", "i", "g", "r", "a", "t", "i", "o", "n">>,
      <<"F", "r", "a", "m", "e", "w", "o", "r", "k">>,
      <<"O", "L", "T">>,
      <<"M", "A", "M", "L", "I", "T", "F", "I", "B", "E", "R">> }

\* an issue as a board returns it: key stands for the key, key_text spells it
BoardIssue(key, key_text, summary) ==
    [key |-> key, key_text |-> key_text, summary |-> summary]

BoardIssuePool ==
    { BoardIssue(1, <<"L", "I", "T", "-", "1">>, sFix),
      BoardIssue(2, <<"O", "P", "S", "-", "1">>,
                 <<"m", "i", "g", "r", "a", "t", "i", "o", "n">>),
      BoardIssue(3, <<"O", "P", "S", "-", "2">>, sFix) }

Board(status, board_issues) == [status |-> status, issues |-> board_issues]

Boards == {Board(st, l) : st \in {200, 404},
                          l \in {m \in SeqsUpTo(BoardIssuePool, 2) : Distinct(m)}}

LastBoards == {Board(200, l) : l \in SeqsUpTo(BoardIssuePool, 1)}

\* the answer to the board listing (200, another status, or the request
\* raises) and the boards
Agiles ==
    {[status |-> st, boards |-> <<>>] : st \in {"500", "raise"}}
    \cup {[status |-> "200", boards |-> bs] :
             bs \in {<<>>} \cup {<<b>> : b \in Boards}
                    \cup {<<b1, b2>> : b1 \in Boards, b2 \in LastBoards}}

\* line 60-72: the pages in the reference format
ReferenceConfluenceDocument(page) ==
    [id |-> page.id, source_type |-> "Confluence", document_type |-> "reference",
     key |-> 0, depth |-> page.depth]

\* line 171-183: the issue in the reference format
ReferenceJiraDocument(issue) ==
    [id |-> issue.key, source_type |-> "Jira", document_type |-> "reference",
     key |-> issue.key, depth |-> 0, topic |-> issue.summary]

\* line 192-199: the basic document of an issue whose detail could not be read
BasicJiraDocument(issue) ==
    [id |-> issue.key, source_type |-> "Jira", document_type |-> "basic",
     key |-> issue.key, depth |-> 0, topic |-> issue.summary]

\* line 119-123: a keyword occurs in the key or in the summary, ignoring case
Relevant(issue) ==
    \E keyword \in Keywords :
        \/ IsSubstring(Upper(keyword), Upper(issue.key_text))
        \/ IsSubstring(Upper(keyword), Upper(issue.summary))

MainFormatConfluence ==
    /\ pc = "format_confluence" /\ entry = "main"
    /\ confluence_docs' =
          [k \in 1..Len(pages) |-> ReferenceConfluenceDocument(pages[k])]
    /\ pc' = "boards"
    /\ UNCHANGED <<env, textState, walkState, jiraState, mainState, jira_docs, all_documents,
                   outState>>

\* line 89-96: the boards are listed
BoardsListed ==
    /\ pc = "boards"
    /\ agile.status = "200"
    /\ boardIdx' = 1
    /\ pc' = "board"
    /\ UNCHANGED <<env, textState, walkState, jiraState, jira_issues, filtered_issues, docIdx,
                   docState, outState>>

\* line 203-208: the listing fails, there are no issue documents
BoardsUnavailable ==
    /\ pc = "boards"
    /\ agile.status # "200"
    /\ jira_docs' = <<>>
    /\ pc' = "merge"
    /\ UNCHANGED <<env, textState, walkState, jiraState, mainState, confluence_docs,
                   all_documents, outState>>

\* line 99-108: the issues of the next board are added
BoardRead ==
    /\ pc = "board"
    /\ boardIdx <= Len(agile.boards)
    /\ agile.boards[boardIdx].status = 200
    /\ jira_issues' = jira_issues \o agile.boards[boardIdx].issues
    /\ boardIdx' = boardIdx + 1
    /\ UNCHANGED <<env, textState, pc, walkState, jiraState, filtered_issues, docIdx,
                   docState, outState>>

\* line 106, 109-111: the board does not answer 200, or the request raises
BoardSkipped ==
    /\ pc = "board"
    /\ boardIdx <= Len(agile.boards)
    /\ agile.boards[boardIdx].status # 200
    /\ boardIdx' = boardIdx + 1
    /\ UNCHANGED <<env, textState, pc, walkState, jiraState, jira_issues, filtered_issues,
                   docIdx, docState, outState>>

\* line 115-128: the issues are filtered by keyword
FilterRelevant ==
    /\ pc = "board"
    /\ boardIdx > Len(agile.boards)
    /\ filtered_issues' = SelectSeq(jira_issues, Relevant)
    /\ jira_docs' = <<>>
    /\ docIdx' = 1
    /\ pc' = "issue_doc"
    /\ UNCHANGED <<env, textState, walkState, jiraState, boardIdx, jira_issues,
                   confluence_docs, all_documents, outState>>

\* line 130-184: the detail request returns and the document is appended
IssueDocBuilt ==
    /\ pc = "issue_doc"
    /\ docIdx <= Len(filtered_issues)
    /\ jira_docs' = Append(jira_docs, ReferenceJiraDocument(filtered_issues[docIdx]))
    /\ docIdx' = docIdx + 1
    /\ UNCHANGED <<env, textState, pc, walkState, jiraState, boardIdx, jira_issues,
                   filtered_issues, confluence_docs, all_documents, outState>>

\* line 189-200: the detail request raises and the issue is left out
IssueDocDropped ==
    /\ pc = "issue_doc"
    /\ docIdx <= Len(filtered_issues)
    /\ docIdx' = docIdx + 1
    /\ UNCHANGED <<env, textState, pc, walkState, jiraState, boardIdx, jira_issues,
                   filtered_issues, docState, outState>>

\* line 189-200: the detail request raises and the basic document is appended
IssueDocBasic ==
    /\ pc = "issue_doc"
    /\ docIdx <= Len(filtered_issues)
    /\ jira_docs' = Append(jira_docs, BasicJiraDocument(filtered_issues[docIdx]))
    /\ docIdx' = docIdx + 1
    /\ UNCHANGED <<env, textState, pc, walkState, jiraState, boardIdx, jira_issues,
                   filtered_issues, confluence_docs, all_documents, outState>>

\* line 129, 202: the loop over filtered_issues is exhausted
IssueDocsDone ==
    /\ pc = "issue_doc"
    /\ docIdx > Len(filtered_issues)
    /\ pc' = "merge"
    /\ UNCHANGED <<env, textState, walkState, jiraState, mainState, docState, outState>>

\* line 211
Merge ==
    /\ pc = "merge"
    /\ all_documents' = MergeDocuments(confluence_docs, jira_docs)
    /\ pc' = "save"
    /\ UNCHANGED <<env, textState, walkState, jiraState, mainState, confluence_docs,
                   jira_docs, outState>>

\* line 221-229: the summary is logged and main returns
MainComplete ==
    /\ pc = "summary" /\ entry = "main"
    /\ completed' = TRUE
    /\ exit_code' = "0"
    /\ pc' = "done"
    /\ UNCHANGED <<env, textState, walkState, jiraState, mainState, docState, files,
                   save_errors, saveIdx>>

MainStep ==
    \/ MainFormatConfluence
    \/ BoardsListed
    \/ BoardsUnavailable
    \/ BoardRead
    \/ BoardSkipped
    \/ FilterRelevant
    \/ IssueDocBuilt
    \/ IssueDocBasic
    \/ IssueDocsDone
    \/ Merge
    \/ SaveWritten
    \/ SaveFails
    \/ MainComplete

\* a page that lists itself as its child
LoopWiki == [p \in Pages |-> IF p = 100 THEN <<100>> ELSE <<>>]

\* main at its call of get_page_hierarchy (line 57)
InitMain ==
    /\ TextIdle
    /\ entry = "main"
    /\ pc = "walk"
    /\ root_page_id = 100
    /\ max_depth = MainMaxDepth
    /\ wiki \in {ExampleWiki, LoopWiki}
    /\ include_jira = TRUE
    /\ jira = <<>>
    /\ agile \in Agiles
    /\ boardIdx = 0 /\ jira_issues = <<>> /\ filtered_issues = <<>> /\ docIdx = 0
    /\ pages = <<>>
    /\ stack = <<Frame(root_page_id, 0, <<>>)>>
    /\ trail = <<>>
    /\ failed = {}
    /\ fetches = <<>>
    /\ JiraIdle /\ RunIdle

NextMain == WalkStep \/ MainStep

SpecMain == InitMain /\ [][NextMain]_vars

----------------------------------------------------------------------------
(* The text normalizers *)

MaxText == 4          \* longest text an element of the markup holds
MaxNodes == 3         \* most nodes of a document tree

Whitespace == {" ", "\t", "\n"}
Alphabet == {"a", "b"} \cup Whitespace

\* line 78: the elements that are decomposed
RemovedTags == {"script", "style", "ac:macro"}

Element(tag, text) == [tag |-> tag, text |-> text]

\* the markups: a paragraph, alone or after an element that is decomposed
Htmls ==
    { <<Element("p", x)>> : x \in SeqsUpTo(Alphabet, MaxText) }
    \cup { <<Element(t, <<"b">>), Element("p", x)>> :
              t \in RemovedTags, x \in SeqsUpTo(Alphabet, MaxText) }

RECURSIVE SoupText(_)
\* lines 78-82: get_text() of the soup once the elements of line 78 are gone
SoupText(soup) ==
    IF soup = <<>> THEN <<>>
    ELSE (IF Head(soup).tag \in RemovedTags THEN <<>> ELSE Head(soup).text)
         \o SoupText(Tail(soup))

\* the least of a set of positions, or 0 when there is none
FirstOf(positions) ==
    IF positions = {} THEN 0
    ELSE CHOOSE k \in positions : \A j \in positions : k <= j

\* the greatest of a set of positions, or 0 when there is none
LastOf(positions) ==
    IF positions = {} THEN 0
    ELSE CHOOSE k \in positions : \A j \in positions : k >= j

RECURSIVE SplitLines(_)
\* str.splitlines(): no last empty line after a final line break
SplitLines(text) ==
    IF text = <<>> THEN <<>>
    ELSE LET k == FirstOf({j \in 1..Len(text) : text[j] = "\n"}) IN
         IF k = 0 THEN <<text>>
         ELSE <<SubSeq(text, 1, k - 1)>> \o SplitLines(SubSeq(text, k + 1, Len(text)))

RECURSIVE SplitDouble(_)
\* str.split("  "): the separator is two spaces, matched from the left
SplitDouble(line) ==
    LET k == FirstOf({j \in 1..(Len(line) - 1) : line[j] = " " /\ line[j + 1] = " "}) IN
    IF k = 0 THEN <<line>>
    ELSE <<SubSeq(line, 1, k - 1)>> \o SplitDouble(SubSeq(line, k + 2, Len(line)))

\* str.strip()
Strip(text) ==
    LET inked == {k \in 1..Len(text) : text[k] \notin Whitespace} IN
    IF inked = {} THEN <<>> ELSE SubSeq(text, FirstOf(inked), LastOf(inked))

RECURSIVE Chunks(_)
\* line 86: the stripped phrases of the stripped lines, in order
Chunks(lines) ==
    IF lines = <<>> THEN <<>>
    ELSE LET phrases == SplitDouble(Strip(Head(lines))) IN
         [k \in 1..Len(phrases) |-> Strip(phrases[k])] \o Chunks(Tail(lines))

\* line 87: the chunks that are not empty
NonEmpty(chunks) == SelectSeq(chunks, LAMBDA c : c # <<>>)

\* lines 85-87: the whitespace clean-up
CleanUp(text) == Join(<<" ">>, NonEmpty(Chunks(SplitLines(text))))

\* extract_text_from_html returns the cleaned text
HtmlExtracted ==
    /\ entry = "extract_text_from_html" /\ pc = "extract"
    /\ parse = "ok"
    /\ extracted' = TextReturned(CleanUp(SoupText(html)))
    /\ pc' = "done"
    /\ UNCHANGED <<env, walkState, jiraState, runState>>

\* lines 90-92: the parser raised, the handler returns html itself
HtmlFailed ==
    /\ entry = "extract_text_from_html" /\ pc = "extract"
    /\ parse = "raise"
    /\ extracted' = TextFallback(html)
    /\ pc' = "done"
    /\ UNCHANGED <<env, walkState, jiraState, runState>>

\* _extract_adf_text returns a str
AdfExtracted ==
    /\ entry = "_extract_adf_text" /\ pc = "extract"
    /\ ~ExtractAdfText(adf_doc).raised
    /\ extracted' = ExtractAdfText(adf_doc)
    /\ pc' = "done"
    /\ UNCHANGED <<env, walkState, jiraState, runState>>

\* an exception leaves _extract_adf_text: nothing in it catches one
AdfRaises ==
    /\ entry = "_extract_adf_text" /\ pc = "extract"
    /\ ExtractAdfText(adf_doc).raised
    /\ extracted' = TextRaised
    /\ pc' = "raised"
    /\ UNCHANGED <<env, walkState, jiraState, runState>>

\* the nodes without items: text nodes, a text node without 'text', one whose
\* 'text' is null, a node of another kind that has a 'text', and nodes whose
\* 'content' is null, a number or a str
Leaves ==
    { TextNode(<<"a">>), TextNode(<<"b">>),
      Block("text", JAbsent, JAbsent), Block("text", JNull, JAbsent),
      Block("mention", JStr(<<"m">>), JAbsent),
      Block("paragraph", JAbsent, JNull), Block("paragraph", JAbsent, JInt(5)),
      Block("paragraph", JAbsent, JStr(<<"a", "b">>)),
      NotADict }

RECURSIVE Trees(_), Forests(_)
\* the trees of exactly n nodes: a leaf, or a paragraph or a text node over a
\* list of smaller trees
Trees(n) ==
    IF n = 0 THEN {}
    ELSE (IF n = 1 THEN Leaves ELSE {})
         \cup { Block("paragraph", JAbsent, JList(f)) : f \in Forests(n - 1) }
         \cup { Block("text", JStr(<<"c">>), JList(f)) : f \in Forests(n - 1) }

\* the lists of trees of exactly n nodes together
Forests(n) ==
    IF n = 0 THEN {<<>>}
    ELSE UNION { { <<t>> \o f : t \in Trees(k), f \in Forests(n - k) } : k \in 1..n }

\* the documents: 'content' missing, null, a number, a str, or a list of
\* trees of at most n nodes together
AdfDocs(n) ==
    { AdfDoc(c) : c \in {JAbsent, JNull, JInt(0), JInt(5), JStr(<<>>),
                          JStr(<<"a", "b">>)} }
    \cup { AdfDoc(JList(f)) : f \in UNION { Forests(k) : k \in 0..n } }

\* one call of a text normalizer
InitText ==
    /\ WalkIdle /\ JiraIdle /\ AgileIdle /\ RunIdle
    /\ jira = <<>> /\ include_jira = FALSE
    /\ pc = "extract"
    /\ extracted = NoText
    /\ \/ /\ entry = "extract_text_from_html"
          /\ html \in Htmls /\ parse \in {"ok", "raise"}
          /\ adf_doc = AdfDoc(JAbsent)
       \/ /\ entry = "_extract_adf_text"
          /\ adf_doc \in AdfDocs(MaxNodes)
          /\ html = <<>> /\ parse = "ok"

NextText == HtmlExtracted \/ HtmlFailed \/ AdfExtracted \/ AdfRaises

SpecText == InitText /\ [][NextText]_vars

----------------------------------------------------------------------------
(* Properties of get_page_hierarchy *)

\* the visit that emitted the parent of the page emitted by visit path
ParentIndex(i) == CHOOSE j \in 1..Len(pages) : trail[j] = Front(trail[i])

\* C1: every record of pages has 0 <= depth <= max_depth, the record of the
\* root has depth 0, and the record of a child reached from a parent emitted
\* with depth d has depth d + 1.
C1_DepthBounded ==
    /\ Len(trail) = Len(pages)
    /\ \A i \in 1..Len(pages) :
          /\ 0 <= pages[i].depth /\ pages[i].depth <= max_depth
          /\ trail[i] = <<>> => pages[i].depth = 0 /\ pages[i].id = root_page_id
          /\ trail[i] # <<>> =>
                /\ \E j \in 1..(i - 1) : trail[j] = Front(trail[i])
                /\ pages[i].depth = pages[ParentIndex(i)].depth + 1

\* a walk that stopped at the depth bound: a page at depth max_depth >= 1 was
\* emitted although it has children
C1_Witness ==
    /\ pc = "done"
    /\ \E i \in 1..Len(pages) :
          /\ pages[i].depth = max_depth /\ max_depth >= 1
          /\ wiki[pages[i].id] # <<>>

\* s comes before t in pre-order: s is a proper prefix of t, or s takes an
\* earlier child than t where they first differ
PathLess(s, t) ==
    \/ Len(s) < Len(t) /\ IsPrefix(s, t)
    \/ \E k \in 1..Len(s) :
          /\ k <= Len(t)
          /\ \A m \in 1..(k - 1) : s[m] = t[m]
          /\ s[k] < t[k]

RECURSIVE NodeAt(_, _)
\* the page the visit path reaches from page_id, following children lists
NodeAt(page_id, path) ==
    IF path = <<>> THEN page_id
    ELSE NodeAt(wiki[page_id][path[1]], SubSeq(path, 2, Len(path)))

\* C2: pages is in pre-order: a page comes before the pages of its subtree,
\* its whole subtree comes before its next sibling, and siblings come in the
\* order get_page_children returned them.
C2_PreOrder ==
    /\ Len(trail) = Len(pages)
    /\ \A i \in 1..Len(pages) : pages[i].id = NodeAt(root_page_id, trail[i])
    /\ \A i, j \in 1..Len(pages) : i < j => PathLess(trail[i], trail[j])

\* a finished walk that emitted a page with a subtree and then its next
\* sibling, where the sibling has the smaller id
C2_Witness ==
    /\ pc = "done"
    /\ \E i, j, k \in 1..Len(pages) :
          /\ i < j /\ j < k
          /\ trail[i] # <<>> /\ Front(trail[j]) = trail[i]
          /\ Len(trail[k]) = Len(trail[i])
          /\ Front(trail[k]) = Front(trail[i])
          /\ pages[k].id < pages[i].id

RECURSIVE FullWalk(_, _, _), FullWalkChildren(_, _, _, _)
\* what _fetch_recursive appends when every detail fetch succeeds
FullWalk(page_id, depth, path) ==
    IF depth > max_depth THEN <<>>
    ELSE <<[id |-> page_id, depth |-> depth, path |-> path]>>
         \o FullWalkChildren(wiki[page_id], 1, depth, path)

FullWalkChildren(children, i, depth, path) ==
    IF i > Len(children) THEN <<>>
    ELSE FullWalk(children[i], depth + 1, Append(path, i))
         \o FullWalkChildren(children, i + 1, depth, path)

Emitted == [i \in 1..Len(pages) |->
               [id |-> pages[i].id, depth |-> pages[i].depth, path |-> trail[i]]]

OutsideFailed(r) == \A f \in failed : ~IsPrefix(f, r.path)

\* C3: when a detail fetch fails or returns nothing, the page and its
\* descendants are absent, no error reaches the caller, and the pages outside
\* that subtree are emitted as in the failure-free walk, in the same order.
C3_FailureIsolated ==
    /\ pc # "raised"
    /\ pc = "done" =>
          Emitted = SelectSeq(FullWalk(root_page_id, 0, <<>>), OutsideFailed)

\* a finished walk in which a fetch failed below the root, cutting off a
\* non-empty subtree, and a later sibling was still emitted
C3_Witness ==
    /\ pc = "done"
    /\ \E f \in failed :
          /\ f # <<>>
          /\ \E r \in {FullWalk(root_page_id, 0, <<>>)[n] :
                          n \in 1..Len(FullWalk(root_page_id, 0, <<>>))} :
                 Len(f) < Len(r.path) /\ IsPrefix(f, r.path)
          /\ \E k \in 1..Len(pages) :
                 /\ Len(trail[k]) = Len(f) /\ Front(trail[k]) = Front(f)
                 /\ Last(trail[k]) > Last(f)

\* C4: get_page_hierarchy terminates for every max_depth and every finite
\* hierarchy, cycles included: the walk returns, and the recursion never goes
\* deeper than max_depth + 1 calls below the root.
C4_Terminates ==
    /\ <>(pc = "done")
    /\ [](Len(stack) <= max_depth + 2)

\* a finished walk of a cyclic hierarchy: a page was emitted again as its own
\* descendant
C4_Witness ==
    /\ pc = "done"
    /\ \E i, j \in 1..Len(pages) :
          /\ i < j /\ pages[i].id = pages[j].id
          /\ Len(trail[i]) < Len(trail[j]) /\ IsPrefix(trail[i], trail[j])

----------------------------------------------------------------------------
(* Properties of search_issues and the collectors *)

\* the description text after normalization: nothing when there is no
\* description, the str itself, or the text of the ADF document
NormalizedDescription(description) ==
    CASE description.kind = "str" -> description.s
      [] description.kind = "adf" -> ExtractAdfText(description.doc).text
      [] OTHER                    -> <<>>

ContainsSelector(selector, issue) ==
    \/ IsSubstring(Lower(selector), Lower(issue.summary))
    \/ IsSubstring(Lower(selector), Lower(NormalizedDescription(issue.description)))

AllRawIssues == UNION {{jira[k].issues[n] : n \in 1..Len(jira[k].issues)} :
                          k \in 1..Len(jira)}

\* C6: for a non-null selector search_issues returns an issue only if the
\* selector, compared case-insensitively, is a substring of the issue's title
\* or of its normalized description text.
C6_OnlyMatching ==
    (entry = "search_issues" /\ ~search_query.none) =>
        \A k \in 1..Len(issues) :
            \A raw \in AllRawIssues :
                raw.key = issues[k].key => ContainsSelector(search_query.s, raw)

CollectorDone == entry \in {"get_lit_issues", "get_connexin_issues"} /\ pc = "done"

Targeted == IF entry = "get_lit_issues" THEN qLit ELSE qConnexin

Collected == IF entry = "get_lit_issues" THEN lit_issues ELSE connexin_issues

\* C7: in the collectors the unfiltered fallback search runs exactly once when
\* the targeted search returned zero issues and never otherwise; the targeted
\* search has limit 30, the fallback limit 10, and every search_issues call
\* returns at most limit records.
C7_FallbackOnce ==
    /\ \A k \in 1..Len(calls) : calls[k].n <= calls[k].limit
    /\ pc \in {"search_project", "search_issue"} => Len(issues) <= limit
    /\ CollectorDone =>
          /\ Len(calls) >= 1
          /\ calls[1].query = Targeted /\ calls[1].limit = 30
          /\ calls[1].n > 0 => Len(calls) = 1
          /\ calls[1].n = 0 =>
                /\ Len(calls) = 2
                /\ calls[2].query = QNone /\ calls[2].limit = 10

\* a collector that fell back, and whose fallback was cut off at its limit
C7_Witness ==
    /\ CollectorDone
    /\ Len(calls) = 2 /\ calls[1].n = 0 /\ calls[1].listed
    /\ calls[2].n = 10 /\ Cardinality(AllRawIssues) > 10

\* C8: when the targeted search returns zero issues and the source holds at
\* least one issue in any project, the collector returns a non-empty list,
\* whatever the position of that project in the listing.
C8_FallbackNonEmpty ==
    (/\ CollectorDone
     /\ \A k \in 1..Len(calls) : calls[k].listed
     /\ calls[1].n = 0
     /\ AllRawIssues # {})
    => Collected # <<>>

----------------------------------------------------------------------------
(* Properties of the runs *)

Keys(s) == {s[k].key : k \in 1..Len(s)}

FirstWith(s, key) == s[CHOOSE k \in 1..Len(s) :
                          s[k].key = key /\ \A m \in 1..(k - 1) : s[m].key # key]

\* C5: the issue list of one collection run (the 'lit' pass followed by the
\* 'connexin' pass, each possibly replaced by its fallback) holds each issue
\* key exactly once, and the record kept for a key is the one seen first.
C5_KeysOnce ==
    (entry = "scrape" /\ pc \in {"save", "summary", "done"} /\ include_jira) =>
        \A key \in Keys(lit_issues \o connexin_issues) :
            /\ Cardinality({k \in 1..Len(jira_docs) : jira_docs[k].key = key}) = 1
            /\ \E k \in 1..Len(jira_docs) :
                  jira_docs[k] =
                      FormatJiraDocument(FirstWith(lit_issues \o connexin_issues, key))

\* C10: when writing the output fails with an I/O error the run ends as a
\* failed run: it never reports completion and its status is not zero.
C10_SaveFailureFails ==
    (entry = "scrape" /\ save_errors # {}) => (~completed /\ exit_code # "0")

\* C9: merge_documents(A, B) is A followed by B: the result has length
\* len(A) + len(B), its first len(A) elements are A in order, the rest are B in
\* order, and neither input is modified by the call.
C9_MergeConcatenates ==
    /\ []((entry = "main" /\ pc \in {"save", "summary", "done"}) =>
          /\ Len(all_documents) = Len(confluence_docs) + Len(jira_docs)
          /\ \A k \in 1..Len(confluence_docs) : all_documents[k] = confluence_docs[k]
          /\ \A k \in 1..Len(jira_docs) :
                all_documents[Len(confluence_docs) + k] = jira_docs[k])
    /\ [][pc = "merge" => /\ confluence_docs' = confluence_docs
                          /\ jira_docs' = jira_docs]_vars

\* a merge of at least two page documents with at least two issue documents
C9_Witness ==
    /\ entry = "main" /\ pc = "save"
    /\ Len(confluence_docs) >= 2 /\ Len(jira_docs) >= 2
    /\ all_documents # <<>>

----------------------------------------------------------------------------
(* The depth bound of get_page_hierarchy *)

Ids(ps) == [k \in 1..Len(ps) |-> ps[k].id]

\* C17: with max_depth = m a fetchable page at depth exactly m is emitted and
\* no get_page_by_id call is made for a page at depth m + 1 or deeper; for
\* root 100 with children [101, 102], 102 with child [103] and max_depth = 1
\* the ids of the result are [100, 101, 102].
C17_BoundIsInclusive ==
    /\ \A k \in 1..Len(fetches) : fetches[k].depth <= max_depth
    /\ (entry = "get_page_hierarchy" /\ pc = "done") =>
          /\ \A n \in 1..Len(FullWalk(root_page_id, 0, <<>>)) :
                LET r == FullWalk(root_page_id, 0, <<>>)[n] IN
                (r.depth = max_depth /\ OutsideFailed(r)) =>
                    \E k \in 1..Len(pages) :
                        /\ trail[k] = r.path
                        /\ pages[k].id = r.id /\ pages[k].depth = max_depth
          /\ (wiki = ExampleWiki /\ root_page_id = 100 /\ max_depth = 1
              /\ failed = {}) => Ids(pages) = <<100, 101, 102>>

\* the walk of the example with max_depth = 1 is over: 102 was emitted at depth
\* 1 and its child 103 was never fetched
C17_Witness ==
    /\ entry = "get_page_hierarchy" /\ pc = "done"
    /\ wiki = ExampleWiki /\ root_page_id = 100 /\ max_depth = 1 /\ failed = {}
    /\ Len(pages) = 3 /\ pages[3].id = 102 /\ pages[3].depth = 1
    /\ \A k \in 1..Len(fetches) : fetches[k].page_id # 103

----------------------------------------------------------------------------
(* Properties of the text normalizers *)

\* C11: the text normalizers never raise: extract_text_from_html returns a
\* string and on an internal failure returns its input unmodified;
\* _extract_adf_text returns a string for every document tree, also for one
\* whose 'content' is not a list of nodes, and no exception reaches its caller.
C11_NeverRaises ==
    /\ pc # "raised"
    /\ ~extracted.raised
    /\ (entry = "extract_text_from_html" /\ pc = "done" /\ parse = "raise") =>
          extracted.failed /\ extracted.raw = html

RECURSIVE Words(_)
\* the maximal runs of characters that are not whitespace, in order
Words(text) ==
    LET first == FirstOf({k \in 1..Len(text) : text[k] \notin Whitespace}) IN
    IF first = 0 THEN <<>>
    ELSE LET end == FirstOf({k \in first..Len(text) : text[k] \in Whitespace}) IN
         IF end = 0 THEN <<SubSeq(text, first, Len(text))>>
         ELSE <<SubSeq(text, first, end - 1)>>
              \o Words(SubSeq(text, end, Len(text)))

\* C12: the whitespace clean-up of extract_text_from_html returns the words of
\* the extracted text in their order, separated by exactly one space: every
\* run of spaces, tabs and newlines becomes one space and the result has no
\* leading or trailing whitespace and no tab or newline.
C12_WhitespaceCollapsed ==
    (entry = "extract_text_from_html" /\ pc = "done" /\ parse = "ok") =>
        extracted.text = Join(<<" ">>, Words(SoupText(html)))

\* the items a block holds
ChildItems(block) ==
    IF block.isDict /\ Iterable(block.content) THEN IterItems(block.content)
    ELSE <<>>

RECURSIVE PathsOf(_)
\* the positions of the nodes below a list of items
PathsOf(items) ==
    UNION { {<<k>>} \cup { <<k>> \o q : q \in PathsOf(ChildItems(items[k])) } :
            k \in 1..Len(items) }

RECURSIVE BlockAt(_, _)
BlockAt(items, path) ==
    IF Len(path) = 1 THEN items[path[1]]
    ELSE BlockAt(ChildItems(items[path[1]]), Tail(path))

\* the positions of the nodes of kind 'text' of the document
TextPaths(doc) ==
    { q \in PathsOf(ChildItems(Block("doc", JAbsent, doc.content))) :
        LET block == BlockAt(doc.content.items, q) IN
        block.isDict /\ block.type = "text" }

\* the texts of the nodes of kind 'text', in document order
TextsInOrder(doc) ==
    LET T == TextPaths(doc)
        At(k) == CHOOSE q \in T : Cardinality({r \in T : PathLess(r, q)}) = k - 1 IN
    [k \in 1..Cardinality(T) |-> GetText(BlockAt(doc.content.items, At(k))).s]

\* C13: for a nested document tree _extract_adf_text returns the texts of
\* exactly the nodes of kind 'text', in depth-first (document) order, joined
\* by a single space; a node with nested content is recursed into and a node
\* of another kind contributes nothing itself.
C13_TextNodesInOrder ==
    (entry = "_extract_adf_text" /\ pc = "done" /\ adf_doc.content.kind = "list") =>
        extracted.text = Join(<<" ">>, TextsInOrder(adf_doc))

\* a text node with nested content came before its nested text node, and the
\* node of another kind gave nothing although it has a 'text'
C13_Witness ==
    /\ entry = "_extract_adf_text" /\ pc = "done"
    /\ adf_doc = AdfDoc(JList(<<Block("text", JStr(<<"c">>), JList(<<TextNode(<<"a">>)>>)),
                                Block("mention", JStr(<<"m">>), JAbsent)>>))
    /\ extracted.text = <<"c", " ", "a">>

----------------------------------------------------------------------------
(* Properties of the issues search_issues returns *)

\* the issue of the service that was returned as x
RawOf(x) == CHOOSE r \in AllRawIssues : r.key = x.key

\* the times of the activity lines of a content
UpdateTimes(content) ==
    { content[k].created : k \in { j \in 1..Len(content) : content[j].label = "Update" } }

\* the times of the n most recent entries of a log in ascending order
MostRecent(histories, n) ==
    { histories[k].created : k \in { j \in 1..Len(histories) : j > Len(histories) - n } }

\* C14: when the activity log of an issue is in ascending order of time and
\* has more than 5 entries, the content of the issue has activity lines for
\* the 5 most recent entries only: at most 5 entries contribute and none
\* older than the 5 most recent does.
C14_MostRecentUpdates ==
    \A k \in 1..Len(issues) :
        LET log == RawOf(issues[k]).histories IN
        Len(log) > 5 =>
            /\ Cardinality(UpdateTimes(issues[k].content)) <= 5
            /\ UpdateTimes(issues[k].content) \subseteq MostRecent(log, 5)

\* the issues of the projects that are searched and answer, in order
RECURSIVE IssuesOf(_)
IssuesOf(projects) ==
    IF projects = <<>> THEN <<>>
    ELSE (IF Head(projects).status = 200 THEN Head(projects).issues ELSE <<>>)
         \o IssuesOf(Tail(projects))

\* C18: in search_issues a failure on one issue (such as a null assignee) is
\* isolated to that issue: every other issue of the same and of later projects
\* that matches the selector and fits the limit is returned, and a missing or
\* null field degrades to its default ('Unassigned').
C18_IssueFailureIsolated ==
    (entry = "search_issues" /\ pc = "search_returned"
     /\ calls # <<>> /\ Last(calls).listed) =>
        /\ \A k \in 1..Len(IssuesOf(Searched)) :
              LET x == IssuesOf(Searched)[k] IN
              (~Raises(x) /\ ~Rejected(x)) =>
                  \/ \E j \in 1..Len(issues) : issues[j].key = x.key
                  \/ Len(issues) >= limit
        /\ \A j \in 1..Len(issues) :
              RawOf(issues[j]).assignee.kind \in {"absent", "null"} =>
                  issues[j].assignee = sUnassigned

----------------------------------------------------------------------------
(* Properties of the documents of the runs *)

\* the collection the scrape command wrote
Written == files["connexin_documents_merged.json"]

\* C16: in the collection written by the scrape command no wiki document and
\* issue document have the same id, given that wiki page ids and issue keys
\* are drawn from disjoint sets; both documents of any wiki page / issue pair
\* are present in the output.
C16_NoSharedId ==
    (/\ entry = "scrape" /\ Written.state = "written"
     /\ { r.key : r \in AllRawIssues } \cap Pages = {}) =>
        LET docs == Written.documents
            wikiDocs == { k \in 1..Len(docs) : docs[k].document_type = "wiki_page" }
            issueDocs == { k \in 1..Len(docs) : docs[k].document_type = "issue" } IN
        /\ \A i \in wikiDocs, j \in issueDocs : docs[i].id # docs[j].id
        /\ \A k \in 1..Len(pages) : \E i \in wikiDocs : docs[i].id = pages[k].id
        /\ \A k \in 1..Len(lit_issues \o connexin_issues) :
              \E j \in issueDocs : docs[j].key = (lit_issues \o connexin_issues)[k].key

\* C15: in the issue phase of scraper.main every issue that passes the keyword
\* filter yields exactly one document whether or not its detail fetch fails: a
\* failed fetch gives a degraded document with the key and the title, and the
\* failure of one issue never removes the documents of other issues.
C15_OneDocumentPerIssue ==
    entry = "main" =>
        /\ pc = "merge" => filtered_issues = SelectSeq(jira_issues, Relevant)
        /\ pc = "issue_doc" => Len(jira_docs) = docIdx - 1
        /\ pc \in {"merge", "save", "summary", "done"} =>
              Len(jira_docs) = Len(filtered_issues)
        /\ \A k \in 1..Len(jira_docs) :
              /\ k <= Len(filtered_issues)
              /\ jira_docs[k].id = filtered_issues[k].key
              /\ jira_docs[k].topic = filtered_issues[k].summary
              /\ jira_docs[k].document_type \in {"reference", "basic"}

\* two issues passed the filter; the detail fetch of the first failed and that
\* of the second did not: both have their document
C15_Witness ==
    /\ entry = "main" /\ pc = "merge"
    /\ Len(filtered_issues) = 2 /\ Len(jira_docs) = 2
    /\ jira_docs[1].document_type = "basic"
    /\ jira_docs[1].topic = filtered_issues[1].summary
    /\ jira_docs[2].document_type = "reference"

====
